---- MODULE Spec2Model ----
(***************************************************************************)
(* Model of fetch-addons.py: the hash normalizer convert_to_sri, the       *)
(* record mapper process_result, and the orchestration in main (page 1     *)
(* fetched on the controlling thread, pages 2..N through a                 *)
(* ThreadPoolExecutor consumed with as_completed, then sort and dump).     *)
(*                                                                         *)
(* Python strings are sequences of one-character strings.  JSON values are *)
(* tagged pairs <<tag, payload>> with tag in                               *)
(*   "null" | "bool" | "str" | "list" | "obj"                              *)
(* and an "obj" payload a function from keys to JSON values; a key that is *)
(* missing from a dict is missing from the function's DOMAIN.              *)
(* A Python call is modelled by its outcome: <<"ok", value>> or            *)
(* <<"raise", exception class>>.  A loop that appends to a list and may    *)
(* raise half way is modelled by the list it leaves and the exception      *)
(* ("none" when it ran to its end).                                        *)
(***************************************************************************)
EXTENDS Integers, Sequences, FiniteSets, TLC

VARIABLES
    \* convert_to_sri applied to one argument
    sri_pc, hash_str, sri_ret,
    \* process_result applied to one raw record
    map_pc, result, map_ret,
    \* main: the command line
    args_pages, args_parallel,
    \* the remote API: what fetch_page(page) returns or raises, per page
    responses,
    \* main: the controlling thread
    pc, first_page, requested_pages, results_list, exc, stdout,
    \* the ThreadPoolExecutor: the state of each submitted future, and the
    \* pages in the order their futures finished
    futures, finished,
    \* as_completed: the pages in the order it yields their futures (known
    \* as far as the futures have finished), and how many it has yielded
    yield_order, consumed,
    \* the number of requests fetch_page has sent, per page
    requests

sri_vars == <<sri_pc, hash_str, sri_ret>>
map_vars == <<map_pc, result, map_ret>>
main_vars ==
    <<args_pages, args_parallel, responses, pc, first_page, requested_pages,
      results_list, exc, stdout, futures, finished, yield_order, consumed,
      requests>>
vars == <<sri_vars, map_vars, main_vars>>

(***************************************************************************)
(* Bounds of the model.                                                    *)
(***************************************************************************)
\* longest digest body enumerated for convert_to_sri
MaxHexLen == 3
\* largest page_count the API reports, and largest --pages
MaxPageCount == 3
\* largest --parallel
MaxParallel == 2

(***************************************************************************)
(* Python values and outcomes.                                             *)
(***************************************************************************)
Ok(v) == <<"ok", v>>
Raise(e) == <<"raise", e>>
IsOk(r) == r[1] = "ok"

EmptyDict == <<>>
Null == <<"null", 0>>
Str(s) == <<"str", s>>
Bool(b) == <<"bool", b>>
List(l) == <<"list", l>>
Num(n) == <<"num", n>>
Obj(f) == <<"obj", f>>
Tag(v) == v[1]
Val(v) == v[2]

\* Python truthiness: None, "", [], {} and False are falsy
Truthy(v) ==
    CASE Tag(v) = "null" -> FALSE
      [] Tag(v) = "bool" -> Val(v)
      [] Tag(v) = "str" -> Len(Val(v)) > 0
      [] Tag(v) = "list" -> Len(Val(v)) > 0
      [] Tag(v) = "obj" -> DOMAIN Val(v) # {}

\* isinstance(v, dict)
IsDict(v) == Tag(v) = "obj"

(***************************************************************************)
(* Strings.                                                                *)
(***************************************************************************)
sha256_dash == <<"s", "h", "a", "2", "5", "6", "-">>
sha512_dash == <<"s", "h", "a", "5", "1", "2", "-">>
sha256_colon == <<"s", "h", "a", "2", "5", "6", ":">>
sha512_colon == <<"s", "h", "a", "5", "1", "2", ":">>
sha256 == <<"s", "h", "a", "2", "5", "6">>
sha512 == <<"s", "h", "a", "5", "1", "2">>

\* str.startswith
startswith(s, p) == Len(s) >= Len(p) /\ SubSeq(s, 1, Len(p)) = p

\* s[n:]
DropPrefix(s, n) == SubSeq(s, n + 1, Len(s))

HexDigitSeq ==
    <<"0", "1", "2", "3", "4", "5", "6", "7", "8", "9",
      "a", "b", "c", "d", "e", "f">>
UpperHexSeq == <<"A", "B", "C", "D", "E", "F">>

hex_digits ==
    {HexDigitSeq[i] : i \in 1..Len(HexDigitSeq)} \cup
    {UpperHexSeq[i] : i \in 1..Len(UpperHexSeq)}

is_hex_string(s) == \A i \in 1..Len(s) : s[i] \in hex_digits

\* value of one hexadecimal digit, either case
HexVal(c) ==
    IF \E i \in 1..Len(HexDigitSeq) : HexDigitSeq[i] = c
    THEN (CHOOSE i \in 1..Len(HexDigitSeq) : HexDigitSeq[i] = c) - 1
    ELSE (CHOOSE i \in 1..Len(UpperHexSeq) : UpperHexSeq[i] = c) + 9

\* bytes.fromhex on a string of hexadecimal digits: two digits per byte,
\* ValueError when a digit is left over
fromhex(h) ==
    IF Len(h) % 2 # 0
    THEN Raise("ValueError")
    ELSE Ok([i \in 1..(Len(h) \div 2) |->
               16 * HexVal(h[2 * i - 1]) + HexVal(h[2 * i])])

B64Alphabet ==
    <<"A", "B", "C", "D", "E", "F", "G", "H", "I", "J", "K", "L", "M",
      "N", "O", "P", "Q", "R", "S", "T", "U", "V", "W", "X", "Y", "Z",
      "a", "b", "c", "d", "e", "f", "g", "h", "i", "j", "k", "l", "m",
      "n", "o", "p", "q", "r", "s", "t", "u", "v", "w", "x", "y", "z",
      "0", "1", "2", "3", "4", "5", "6", "7", "8", "9", "+", "/">>

B64Char(n) == B64Alphabet[n + 1]

\* base64.b64encode: three bytes to four characters, "=" padding
RECURSIVE b64encode(_)
b64encode(b) ==
    IF Len(b) = 0 THEN <<>>
    ELSE IF Len(b) = 1 THEN
        <<B64Char(b[1] \div 4), B64Char((b[1] % 4) * 16), "=", "=">>
    ELSE IF Len(b) = 2 THEN
        <<B64Char(b[1] \div 4),
          B64Char((b[1] % 4) * 16 + b[2] \div 16),
          B64Char((b[2] % 16) * 4), "=">>
    ELSE
        <<B64Char(b[1] \div 4),
          B64Char((b[1] % 4) * 16 + b[2] \div 16),
          B64Char((b[2] % 16) * 4 + b[3] \div 64),
          B64Char(b[3] % 64)>> \o b64encode(SubSeq(b, 4, Len(b)))

(***************************************************************************)
(* convert_to_sri(hash_str, verbose, addon_guid).  The logging calls       *)
(* change no state and are left out.                                       *)
(***************************************************************************)
\* lines 103-105, once algo and hex_part are chosen
EncodeSri(algo, hex_part) ==
    LET hash_bytes == fromhex(hex_part)
    IN  IF IsOk(hash_bytes)
        THEN Ok(algo \o <<"-">> \o b64encode(hash_bytes[2]))
        ELSE hash_bytes

convert_to_sri(h) ==
    IF startswith(h, sha256_dash) \/ startswith(h, sha512_dash) THEN Ok(h)
    ELSE IF startswith(h, sha256_colon) THEN
        IF ~is_hex_string(DropPrefix(h, Len(sha256_colon))) THEN Ok(h)
        ELSE EncodeSri(sha256, DropPrefix(h, Len(sha256_colon)))
    ELSE IF startswith(h, sha512_colon) THEN
        IF ~is_hex_string(DropPrefix(h, Len(sha512_colon))) THEN Ok(h)
        ELSE EncodeSri(sha512, DropPrefix(h, Len(sha512_colon)))
    ELSE IF is_hex_string(h) THEN EncodeSri(sha256, h)
    ELSE Ok(h)

(***************************************************************************)
(* Arguments enumerated for convert_to_sri: each recognised prefix (and no *)
(* prefix) followed by every body of at most MaxHexLen characters over     *)
(* lower- and upper-case digits, a non-hex letter and the two separators;  *)
(* and the three examples the documentation names.                         *)
(***************************************************************************)
BodyChars == {"0", "a", "F", "g", "-", ":"}

RECURSIVE StringsUpTo(_, _)
StringsUpTo(chars, n) ==
    IF n = 0 THEN {<<>>}
    ELSE LET shorter == StringsUpTo(chars, n - 1)
         IN  shorter \cup {Append(s, c) : s \in shorter, c \in chars}

HashPrefixes == {<<>>, sha256_dash, sha512_dash, sha256_colon, sha512_colon}

deadbeef == <<"d", "e", "a", "d", "b", "e", "e", "f">>
not_a_hash == <<"n", "o", "t", "-", "a", "-", "h", "a", "s", "h", "!">>

HashInputs ==
    {p \o b : p \in HashPrefixes, b \in StringsUpTo(BodyChars, MaxHexLen)}
    \cup {deadbeef, sha256_colon \o deadbeef, not_a_hash}

SriInit ==
    /\ sri_pc = "call"
    /\ hash_str \in HashInputs
    /\ sri_ret = Raise("pending")

\* the call returns or raises
SriCall ==
    /\ sri_pc = "call"
    /\ sri_ret' = convert_to_sri(hash_str)
    /\ sri_pc' = IF IsOk(convert_to_sri(hash_str)) THEN "returned" ELSE "raised"
    /\ UNCHANGED hash_str

(***************************************************************************)
(* Dict access.                                                            *)
(***************************************************************************)
\* d[k]: KeyError on a dict without the key, TypeError on None, a bool, or
\* a str or list indexed by a str
Index(d, k) ==
    IF IsDict(d)
    THEN IF k \in DOMAIN Val(d) THEN Ok(Val(d)[k]) ELSE Raise("KeyError")
    ELSE Raise("TypeError")

\* d.get(k) on a dict: None when the key is missing
Get(d, k) == IF k \in DOMAIN Val(d) THEN Val(d)[k] ELSE Null

\* d.get(k, {}) on a dict
GetOrEmpty(d, k) == IF k \in DOMAIN Val(d) THEN Val(d)[k] ELSE Obj(EmptyDict)

\* k in d, on a dict
In(k, d) == k \in DOMAIN Val(d)

public == <<"p", "u", "b", "l", "i", "c">>
en_US == "en-US"

(***************************************************************************)
(* process_result(result, verbose), lines 134-237.                         *)
(***************************************************************************)
\* a mapper that forgets the check of current_version.file.status
CheckStatus_TopLevelOnly(r) ==
    LET st == Index(r, "status")
        cv == Index(r, "current_version")
        fl == IF IsOk(cv) THEN Index(cv[2], "file") ELSE cv
        fs == IF IsOk(fl) THEN Index(fl[2], "status") ELSE fl
    IN  IF ~IsOk(st) THEN st
        ELSE IF st[2] # Str(public) THEN Raise("Exception")
        ELSE IF ~IsOk(fs) THEN fs
        ELSE Ok(TRUE)

\* lines 141-144: the two status checks
CheckStatus(r) ==
    LET st == Index(r, "status")
        cv == Index(r, "current_version")
        fl == IF IsOk(cv) THEN Index(cv[2], "file") ELSE cv
        fs == IF IsOk(fl) THEN Index(fl[2], "status") ELSE fl
    IN  IF ~IsOk(st) THEN st
        ELSE IF st[2] # Str(public) THEN Raise("Exception")
        ELSE IF ~IsOk(fs) THEN fs
        ELSE IF fs[2] # Str(public) THEN Raise("Exception")
        ELSE Ok(TRUE)

\* a mapper that reads the "en-US" entry of slug with .get
ExtractPname_Lenient(r) ==
    LET slug == Index(r, "slug")
    IN  IF ~IsOk(slug) THEN slug
        ELSE IF IsDict(slug[2]) THEN Ok(Get(slug[2], en_US))
        ELSE slug

\* lines 148-152: pname from slug, through its "en-US" entry when a dict
ExtractPname(r) ==
    LET slug == Index(r, "slug")
    IN  IF ~IsOk(slug) THEN slug
        ELSE IF IsDict(slug[2]) THEN Index(slug[2], en_US)
        ELSE slug

\* line 156: hash_str.startswith raises AttributeError unless hash_str is a
\* str; bytes.fromhex may raise ValueError
CallConvert(hash_val) ==
    IF Tag(hash_val) # "str" THEN Raise("AttributeError")
    ELSE LET c == convert_to_sri(Val(hash_val))
         IN  IF IsOk(c) THEN Ok(Str(c[2])) ELSE c

\* lines 147-159: "except KeyError" turns a KeyError into Exception, any
\* other exception propagates as it is
WrapKeyError(o) == IF o = Raise("KeyError") THEN Raise("Exception") ELSE o

\* lines 147-167: the required fields, after the status checks passed (so
\* current_version and current_version.file are dicts)
ExtractRequired(r) ==
    LET cv == Val(r)["current_version"]
        fl == Val(cv)["file"]
        pname == ExtractPname(r)
        version == Index(cv, "version")
        url == Index(fl, "url")
        hash_val == Index(fl, "hash")
        guid == Index(r, "guid")
        converted == IF IsOk(hash_val) THEN CallConvert(hash_val[2]) ELSE hash_val
    IN  IF ~IsOk(pname) THEN WrapKeyError(pname)
        ELSE IF ~IsOk(version) THEN WrapKeyError(version)
        ELSE IF ~IsOk(url) THEN WrapKeyError(url)
        ELSE IF ~IsOk(hash_val) THEN WrapKeyError(hash_val)
        ELSE IF ~IsOk(guid) THEN WrapKeyError(guid)
        ELSE IF ~IsOk(converted) THEN WrapKeyError(converted)
        ELSE Ok([pname |-> pname[2], version |-> version[2], url |-> url[2],
                 hash |-> converted[2], addonId |-> guid[2]])

\* lines 177-180 and 187-190: a value that is a plain string or a
\* per-locale dict; None when the dict has no "en-US" entry
ResolveLocale(v) == IF IsDict(v) THEN Get(v, en_US) ELSE v

\* Each optional field: the set of (meta key, value) pairs it adds.
\* lines 173-182
MetaHomepage(r) ==
    LET homepage_obj == Get(r, "homepage")
        url_obj == IF Truthy(homepage_obj) THEN Get(homepage_obj, "url") ELSE Null
        home == IF Truthy(url_obj) THEN ResolveLocale(url_obj) ELSE Null
    IN  IF home # Null THEN {<<"homepage", home>>} ELSE {}

\* lines 185-192
MetaDescription(r) ==
    LET summary_obj == Get(r, "summary")
        desc == IF Truthy(summary_obj) THEN ResolveLocale(summary_obj) ELSE Null
    IN  IF desc # Null THEN {<<"description", desc>>} ELSE {}

\* "if obj and key in obj: meta[name] = obj[key]" (lines 195-197, 213-215,
\* 230-232)
MetaNested(obj, key, name) ==
    IF Truthy(obj) /\ In(key, obj) THEN {<<name, Val(obj)[key]>>} ELSE {}

\* "if key in obj: meta[name] = obj[key]" (lines 201-210, 218-227)
MetaDirect(obj, key, name) ==
    IF In(key, obj) THEN {<<name, Val(obj)[key]>>} ELSE {}

\* lines 169-232: the pairs of the meta dict
MetaPairs(r) ==
    LET cv == GetOrEmpty(r, "current_version")
        file_obj == GetOrEmpty(cv, "file")
    IN  MetaHomepage(r) \cup MetaDescription(r)
        \cup MetaNested(Get(cv, "license"), "slug", "license")
        \cup MetaDirect(file_obj, "permissions", "permissions")
        \cup MetaDirect(file_obj, "host_permissions", "hostPermissions")
        \cup MetaDirect(file_obj, "optional_permissions", "optionalPermissions")
        \cup MetaDirect(r, "requires_payment", "requiresPayment")
        \cup MetaNested(Get(r, "compatibility"), "firefox", "compatibility")
        \cup MetaDirect(r, "categories", "categories")
        \cup MetaDirect(r, "tags", "tags")
        \cup MetaDirect(r, "has_eula", "hasEula")
        \cup MetaDirect(r, "has_privacy_policy", "hasPrivacyPolicy")
        \cup MetaNested(Get(r, "promoted"), "category", "promotedCategory")

\* the dict holding the pairs (each key occurs in at most one pair)
DictOf(pairs) ==
    [k \in {p[1] : p \in pairs} |-> (CHOOSE p \in pairs : p[1] = k)[2]]

\* a mapper that adds meta even when it is empty
AttachMeta_Always(mapped, meta) == mapped @@ [meta |-> Obj(meta)]

\* lines 234-237: meta is added only when it is not empty
AttachMeta(mapped, meta) ==
    IF DOMAIN meta # {} THEN mapped @@ [meta |-> Obj(meta)] ELSE mapped

process_result(r) ==
    LET checked == CheckStatus(r)
        required == ExtractRequired(r)
    IN  IF ~IsOk(checked) THEN checked
        ELSE IF ~IsOk(required) THEN required
        ELSE Ok(Obj(AttachMeta(required[2], DictOf(MetaPairs(r)))))

(***************************************************************************)
(* Raw records enumerated for process_result.  Absent marks a key that the *)
(* record does not have (it is not a JSON value).                          *)
(***************************************************************************)
\* most optional top-level/file keys present at once in an enumerated record
MaxOptKeys == 2

Absent == <<"absent", 0>>

\* the dict of the keys of f that are not Absent
MkDict(f) == [k \in {j \in DOMAIN f : f[j] # Absent} |-> f[k]]

\* a raw record from its top-level keys, the keys of current_version and
\* the keys of current_version.file
RawRecord(top, cv, fl) ==
    Obj(MkDict(top) @@
        [current_version |-> Obj(MkDict(cv) @@ [file |-> Obj(MkDict(fl))])])

disabled == <<"d", "i", "s", "a", "b", "l", "e", "d">>
SomeUrl == <<"h", "t", "t", "p", "s", ":", "/", "/", "x">>
SomeGuid == <<"{", "g", "}">>
SomeVersion == <<"1", ".", "0">>
GoodHash == sha256_colon \o <<"0", "a">>

StatusOptions == {Absent, Str(public), Str(disabled)}

\* a plain string, an empty string, null, and per-locale dicts with and
\* without an "en-US" entry
LocaleOptions(s) ==
    {Null, Str(s), Str(<<>>), Obj(EmptyDict), Obj(en_US :> Str(s)),
     Obj(en_US :> Str(<<>>)), Obj(en_US :> Null), Obj("fr" :> Str(s))}

SlugOptions == {Absent} \cup LocaleOptions(<<"a", "b">>)

HashOptions ==
    {Absent, Null, Str(GoodHash), Str(sha256_dash \o <<"+", "g", "=", "=">>),
     Str(<<"0", "a", "F">>), Str(not_a_hash)}

\* the required fields and the two statuses, in every combination; and the
\* records whose current_version or file is missing or null
RequiredShapes ==
    {RawRecord([status |-> st, slug |-> sl, guid |-> g],
               [version |-> v],
               [status |-> fs, url |-> u, hash |-> h]) :
        st \in StatusOptions, sl \in SlugOptions,
        g \in {Absent, Str(SomeGuid)}, v \in {Absent, Str(SomeVersion)},
        fs \in StatusOptions, u \in {Absent, Str(SomeUrl)}, h \in HashOptions}
    \cup {Obj([status |-> Str(public), slug |-> Str(<<"a">>)] @@ cv) :
            cv \in {EmptyDict, [current_version |-> Null],
                    [current_version |-> Obj(EmptyDict)],
                    [current_version |-> Obj([file |-> Null])]}}

GoodTop == [status |-> Str(public), slug |-> Str(<<"a">>), guid |-> Str(SomeGuid)]
GoodCv == [version |-> Str(SomeVersion)]
GoodFile == [status |-> Str(public), url |-> Str(SomeUrl), hash |-> Str(GoodHash)]

HomepageOptions ==
    {Absent, Null, Obj(EmptyDict)}
    \cup {Obj([url |-> x]) : x \in LocaleOptions(SomeUrl)}

SummaryOptions == {Absent} \cup LocaleOptions(<<"s">>)

\* homepage and summary in every shape
LocaleShapes ==
    {RawRecord(GoodTop @@ [homepage |-> hp, summary |-> sm], GoodCv, GoodFile) :
        hp \in HomepageOptions, sm \in SummaryOptions}

\* a nested optional object: missing, null, empty, without the key, with the
\* key, with the key set to null
NestedOptions(key) ==
    {Absent, Null, Obj(EmptyDict), Obj("other" :> Str(<<"x">>)),
     Obj(key :> Str(<<"x">>)), Obj(key :> Null)}

NestedShapes ==
    {RawRecord(GoodTop @@ [compatibility |-> c, promoted |-> p],
               GoodCv @@ [license |-> l], GoodFile) :
        c \in NestedOptions("firefox"), p \in NestedOptions("category"),
        l \in NestedOptions("slug")}

\* values of the optional keys that are copied as they are
DirectValues == {Null, Bool(FALSE), List(<<Str(<<"t">>)>>)}
DirectTopKeys ==
    {"requires_payment", "categories", "tags", "has_eula", "has_privacy_policy"}
DirectFileKeys == {"permissions", "host_permissions", "optional_permissions"}

Assignments(keys) == UNION {[ks -> DirectValues] : ks \in SUBSET keys}

DirectShapes ==
    {RawRecord(GoodTop @@ t, GoodCv, GoodFile @@ f) :
        t \in {a \in Assignments(DirectTopKeys) :
                 Cardinality(DOMAIN a) <= MaxOptKeys},
        f \in {a \in Assignments(DirectFileKeys) :
                 Cardinality(DOMAIN a) <= MaxOptKeys}}

RawInputs == RequiredShapes \cup LocaleShapes \cup NestedShapes \cup DirectShapes

MapInit ==
    /\ map_pc = "call"
    /\ result \in RawInputs
    /\ map_ret = Raise("pending")

\* the call returns or raises
MapCall ==
    /\ map_pc = "call"
    /\ map_ret' = process_result(result)
    /\ map_pc' = IF IsOk(process_result(result)) THEN "returned" ELSE "raised"
    /\ UNCHANGED result

SriIdle == sri_pc = "idle" /\ hash_str = <<>> /\ sri_ret = Raise("pending")
MapIdle == map_pc = "idle" /\ result = Null /\ map_ret = Raise("pending")

(***************************************************************************)
(* Sorting by pname (line 294).                                            *)
(***************************************************************************)
\* code points of the characters the enumerated slugs use
ord(c) == CASE c = "B" -> 66 [] c = "a" -> 97 [] c = "b" -> 98

\* a < b on str: the first differing code point decides, a proper prefix is
\* smaller
StrLess(a, b) ==
    \E k \in 1..Len(b) :
        /\ \A i \in 1..(k - 1) : i <= Len(a) /\ a[i] = b[i]
        /\ \/ Len(a) = k - 1
           \/ Len(a) >= k /\ a[k] # b[k] /\ ord(a[k]) < ord(b[k])

\* x["pname"] of a mapped record
pname_of(m) == Val(m)["pname"]

\* key(a) < key(b), for keys that are both str
KeyLess(a, b) == StrLess(Val(pname_of(a)), Val(pname_of(b)))

\* The sort is stable and compares keys with "<" only: element i comes out
\* behind every other element with a smaller key and behind every earlier
\* element whose key is not greater.
StablePosition(l, i) ==
    1 + Cardinality({j \in 1..Len(l) \ {i} :
            \/ KeyLess(l[j], l[i])
            \/ j < i /\ ~KeyLess(l[i], l[j])})

\* a sort that leaves the list as it is
StableSort_Unsorted(l) == l

StableSort(l) ==
    [pos \in 1..Len(l) |-> l[CHOOSE i \in 1..Len(l) : StablePosition(l, i) = pos]]

\* a sorted() that returns the list in the order it was collected
sorted_AsCollected(l) == Ok(l)

\* sorted(results_list, key=lambda x: x["pname"]): with two or more
\* elements every key is compared, and "<" raises TypeError unless both
\* keys are str (the enumerated keys are str or None)
sorted(l) ==
    IF Len(l) >= 2 /\ \E i \in 1..Len(l) : Tag(pname_of(l[i])) # "str"
    THEN Raise("TypeError")
    ELSE Ok(StableSort(l))

(***************************************************************************)
(* main, lines 239-296.                                                    *)
(***************************************************************************)
Unset == <<"unset", 0>>

\* fetch_page(page, ...): the decoded response, or the exception of
\* requests.get / raise_for_status / response.json
fetch_page(page) == responses[page]

\* data.get("results", [])
results_of(data) ==
    IF In("results", data) THEN Val(Val(data)["results"]) ELSE <<>>

NoException == "none"

\* process_result(addon, args.verbose) for each addon of a page
MapAll(addons) == [i \in 1..Len(addons) |-> process_result(addons[i])]

\* results_list.append(mapped) for the records before the first one that
\* process_result refuses; then its exception leaves the loop
AppendUntilRaise(list, outcomes) ==
    LET refused == {i \in 1..Len(outcomes) : ~IsOk(outcomes[i])}
        stop == IF refused = {} THEN Len(outcomes) + 1
                ELSE CHOOSE i \in refused : \A j \in refused : i <= j
    IN  [list |-> list \o [i \in 1..(stop - 1) |-> outcomes[i][2]],
         exc |-> IF refused = {} THEN NoException ELSE outcomes[stop][2]]

\* "for addon in ...: mapped = process_result(addon); results_list.append"
\* (lines 276-278 and 289-291): the list the loop leaves and the exception
\* that ended it, if any (each record is mapped once)
MapAppend(list, addons) ==
    CHOOSE out \in {AppendUntilRaise(list, outcomes) :
                       outcomes \in {MapAll(addons)}} : TRUE

\* first_page.get("page_count", 1)
total_pages_of(data) ==
    IF In("page_count", data) THEN Val(Val(data)["page_count"]) ELSE 1

Min(a, b) == IF a <= b THEN a ELSE b

\* a main that ignores --pages
requested_pages_of_Uncapped(pages, total_pages) == total_pages

\* lines 266-269
requested_pages_of(pages, total_pages) ==
    IF pages # Unset THEN Min(Val(pages), total_pages) ELSE total_pages

\* range(2, requested_pages + 1)
PoolPages(n) == 2..n

\* line 260
FetchFirstPage ==
    /\ pc = "start"
    /\ requests' = [requests EXCEPT ![1] = @ + 1]
    /\ IF IsOk(fetch_page(1))
       THEN /\ first_page' = fetch_page(1)[2]
            /\ pc' = "first_fetched"
            /\ exc' = exc
       ELSE /\ exc' = fetch_page(1)[2]
            /\ pc' = "failed"
            /\ first_page' = first_page
    /\ UNCHANGED <<args_pages, args_parallel, responses, requested_pages,
                   results_list, stdout, futures, finished, yield_order,
                   consumed>>

\* lines 261-278
ProcessFirstPage ==
    /\ pc = "first_fetched"
    /\ requested_pages' =
           requested_pages_of(args_pages, total_pages_of(first_page))
    /\ \E mapped \in {MapAppend(<<>>, results_of(first_page))} :
           /\ results_list' = mapped.list
           /\ exc' = mapped.exc
           /\ pc' = IF mapped.exc = NoException THEN "pool" ELSE "failed"
    /\ UNCHANGED <<args_pages, args_parallel, responses, first_page, stdout,
                   futures, finished, yield_order, consumed, requests>>

\* lines 281-282: ThreadPoolExecutor(max_workers) raises ValueError unless
\* max_workers > 0
EnterPool ==
    /\ pc = "pool"
    /\ IF requested_pages > 1
       THEN IF args_parallel <= 0
            THEN /\ exc' = "ValueError"
                 /\ pc' = "failed"
            ELSE /\ pc' = "submit"
                 /\ exc' = exc
       ELSE /\ pc' = "sort"
            /\ exc' = exc
    /\ UNCHANGED <<args_pages, args_parallel, responses, first_page,
                   requested_pages, results_list, stdout, futures, finished,
                   yield_order, consumed, requests>>

\* the page the dict comprehension of lines 283-286 submits next
NextToSubmit ==
    CHOOSE p \in PoolPages(requested_pages) \ DOMAIN futures :
        \A q \in PoolPages(requested_pages) \ DOMAIN futures : p <= q

\* lines 283-286, one executor.submit: the work item is queued; the workers
\* run while the controlling thread submits the pages that follow
SubmitPage ==
    /\ pc = "submit"
    /\ futures' = [p \in DOMAIN futures \cup {NextToSubmit} |->
                     IF p = NextToSubmit THEN "pending" ELSE futures[p]]
    /\ pc' = IF NextToSubmit = requested_pages THEN "submitted" ELSE "submit"
    /\ UNCHANGED <<args_pages, args_parallel, responses, first_page,
                   requested_pages, results_list, exc, stdout, finished,
                   yield_order, consumed, requests>>

Running == {p \in DOMAIN futures : futures[p] = "running"}
Pending == {p \in DOMAIN futures : futures[p] = "pending"}
Finished == {p \in DOMAIN futures : futures[p] = "finished"}

\* the pool has been entered and not left
InPool == pc \in {"submit", "submitted", "as_completed", "pool_exit"}

\* a worker thread takes the oldest queued work item and marks its future
\* running: at most max_workers threads, the queue is first in, first out
WorkerStart(p) ==
    /\ InPool
    /\ p \in Pending
    /\ \A q \in Pending : p <= q
    /\ Cardinality(Running) < args_parallel
    /\ futures' = [futures EXCEPT ![p] = "running"]
    /\ UNCHANGED <<args_pages, args_parallel, responses, pc, first_page,
                   requested_pages, results_list, exc, stdout, finished,
                   yield_order, consumed, requests>>

\* the worker that took the work item of page p calls fetch_page, which
\* sends the request (line 127); another worker may have sent the request
\* of a later page before
WorkerRequest(p) ==
    /\ InPool
    /\ p \in Running
    /\ requests[p] = 0
    /\ requests' = [requests EXCEPT ![p] = @ + 1]
    /\ UNCHANGED <<args_pages, args_parallel, responses, pc, first_page,
                   requested_pages, results_list, exc, stdout, futures,
                   finished, yield_order, consumed>>

\* fetch_page returns or raises in the worker; the future is finished, and
\* the waiter of a running as_completed loop is told
WorkerFinish(p) ==
    /\ InPool
    /\ p \in Running
    /\ requests[p] > 0
    /\ futures' = [futures EXCEPT ![p] = "finished"]
    /\ finished' = Append(finished, p)
    /\ yield_order' = IF pc = "as_completed" THEN Append(yield_order, p)
                      ELSE yield_order
    /\ UNCHANGED <<args_pages, args_parallel, responses, pc, first_page,
                   requested_pages, results_list, exc, stdout, consumed,
                   requests>>

\* the orders in which a set can be iterated
Orders(S) ==
    {o \in [1..Cardinality(S) -> S] :
        \A i, j \in 1..Cardinality(S) : i # j => o[i] # o[j]}

\* line 287, the call of as_completed: the futures that have finished by
\* now are yielded first, in the iteration order of a set of futures (any
\* order); the others are yielded as they finish
StartAsCompleted ==
    /\ pc = "submitted"
    /\ yield_order' \in Orders(Finished)
    /\ pc' = "as_completed"
    /\ UNCHANGED <<args_pages, args_parallel, responses, first_page,
                   requested_pages, results_list, exc, stdout, futures,
                   finished, consumed, requests>>

\* a loop that skips a page whose fetch raised
future_outcome_SkipsFailedFetch(page, list) ==
    IF IsOk(fetch_page(page))
    THEN MapAppend(list, results_of(fetch_page(page)[2]))
    ELSE [list |-> list, exc |-> NoException]

\* a loop that replaces the collection by the records of the page
future_outcome_Overwrites(page, list) ==
    IF IsOk(fetch_page(page))
    THEN MapAppend(<<>>, results_of(fetch_page(page)[2]))
    ELSE [list |-> list, exc |-> fetch_page(page)[2]]

\* lines 288-291 for the future of one page: future.result() raises what
\* fetch_page raised, else the records of the page are mapped and appended
future_outcome(page, list) ==
    IF IsOk(fetch_page(page))
    THEN MapAppend(list, results_of(fetch_page(page)[2]))
    ELSE [list |-> list, exc |-> fetch_page(page)[2]]

\* lines 287-291, one iteration: as_completed yields the next future of
\* yield_order; the loop ends when every future has been yielded
ConsumeCompleted ==
    /\ pc = "as_completed"
    /\ consumed < Len(yield_order)
    /\ consumed' = consumed + 1
    /\ \E mapped \in {future_outcome(yield_order[consumed + 1], results_list)} :
           /\ results_list' = mapped.list
           /\ exc' = mapped.exc
           /\ pc' = IF mapped.exc # NoException
                       \/ consumed + 1 = Cardinality(DOMAIN futures)
                    THEN "pool_exit" ELSE "as_completed"
    /\ UNCHANGED <<args_pages, args_parallel, responses, first_page,
                   requested_pages, stdout, futures, finished, yield_order,
                   requests>>

\* a shutdown that does not wait for the workers
WorkersJoined_NoWait == TRUE

\* executor.shutdown(wait=True) returns: every worker has been joined, and
\* a worker exits only when no work item is queued or running
WorkersJoined == \A p \in DOMAIN futures : futures[p] = "finished"

\* the end of the with block: executor.shutdown(wait=True) joins the
\* workers, which first run every queued work item; then the exception, if
\* any, propagates out of main
PoolExit ==
    /\ pc = "pool_exit"
    /\ WorkersJoined
    /\ pc' = IF exc = NoException THEN "sort" ELSE "failed"
    /\ UNCHANGED <<args_pages, args_parallel, responses, first_page,
                   requested_pages, results_list, exc, stdout, futures,
                   finished, yield_order, consumed, requests>>

\* lines 294-296
SortAndDump ==
    /\ pc = "sort"
    /\ \E sorted_results \in {sorted(results_list)} :
           IF IsOk(sorted_results)
           THEN /\ stdout' = <<List(sorted_results[2])>>
                /\ pc' = "done"
                /\ exc' = exc
           ELSE /\ exc' = sorted_results[2]
                /\ pc' = "failed"
                /\ stdout' = stdout
    /\ UNCHANGED <<args_pages, args_parallel, responses, first_page,
                   requested_pages, results_list, futures, finished,
                   yield_order, consumed, requests>>

(***************************************************************************)
(* Runs of main that are enumerated.                                       *)
(***************************************************************************)
OtherVersion == <<"2", ".", "0">>

Rec(slug, version) ==
    RawRecord([status |-> Str(public), slug |-> slug, guid |-> Str(SomeGuid)],
              [version |-> Str(version)], GoodFile)

RecA1 == Rec(Str(<<"a">>), SomeVersion)
\* the same pname as RecA1 in another record
RecA2 == Rec(Str(<<"a">>), OtherVersion)
RecB == Rec(Str(<<"b">>), SomeVersion)
RecUpperB == Rec(Str(<<"B">>), SomeVersion)
\* a per-locale slug, and a meta dict
RecLocale ==
    RawRecord(GoodTop @@ [summary |-> Str(<<"s">>)], GoodCv, GoodFile)
RecAb ==
    RawRecord([status |-> Str(public), slug |-> Obj(en_US :> Str(<<"a", "b">>)),
               guid |-> Str(SomeGuid), summary |-> Str(<<"s">>)],
              GoodCv, GoodFile)
\* records process_result refuses
RecDisabled ==
    RawRecord([status |-> Str(disabled), slug |-> Str(<<"b">>),
               guid |-> Str(SomeGuid)], GoodCv, GoodFile)
RecNoGuid ==
    RawRecord([status |-> Str(public), slug |-> Str(<<"b">>)], GoodCv, GoodFile)
\* "slug": null gives pname None
RecNullSlug == Rec(Null, SomeVersion)

\* a response: page_count and results, either key possibly missing
Page(page_count, results) ==
    Ok(Obj(MkDict([page_count |-> page_count, results |-> results])))

HTTPError == Raise("HTTPError")

PagesOptions == {Unset} \cup {Num(n) : n \in (0 - 1)..MaxPageCount}
PageCountOptions == {Absent} \cup {Num(n) : n \in 0..MaxPageCount}
ParallelOptions == 0..MaxParallel

\* the pages a run with these arguments can ask for
Reachable(pages, page_count) ==
    {1} \cup PoolPages(requested_pages_of(pages,
                 IF page_count = Absent THEN 1 ELSE Val(page_count)))

\* every --pages, page_count and --parallel; each page fails, has no
\* "results" key, or holds one record
PaginationResponses(pages, pcount) ==
    {r \in [1..MaxPageCount ->
              {HTTPError, Page(pcount, Absent), Page(pcount, List(<<RecA1>>))}] :
        \A p \in 1..MaxPageCount :
            p \notin Reachable(pages, pcount) => r[p] = HTTPError}

PaginationRuns ==
    UNION {{<<pages, parallel, r>> :
              parallel \in ParallelOptions,
              r \in PaginationResponses(pages, pcount)} :
           pages \in PagesOptions, pcount \in PageCountOptions}

PageBodies ==
    {<<>>, <<RecA1>>, <<RecB, RecA2>>, <<RecAb, RecUpperB>>, <<RecDisabled>>,
     <<RecNullSlug>>}

\* every page is asked for; each page fails or holds one of PageBodies
ContentRuns ==
    {<<Unset, parallel, resp>> :
        parallel \in 1..MaxParallel,
        resp \in [1..MaxPageCount ->
                    {HTTPError} \cup
                    {Page(Num(MaxPageCount), List(b)) : b \in PageBodies}]}

RecFileDisabled ==
    RawRecord(GoodTop, GoodCv,
              [status |-> Str(disabled), url |-> Str(SomeUrl),
               hash |-> Str(GoodHash)])
RecNoSlug ==
    RawRecord([status |-> Str(public), guid |-> Str(SomeGuid)], GoodCv, GoodFile)
RecNoVersion == RawRecord(GoodTop, EmptyDict, GoodFile)
RecNoUrl ==
    RawRecord(GoodTop, GoodCv, [status |-> Str(public), hash |-> Str(GoodHash)])
RecNoHash ==
    RawRecord(GoodTop, GoodCv, [status |-> Str(public), url |-> Str(SomeUrl)])
RecOddHash ==
    RawRecord(GoodTop, GoodCv,
              [status |-> Str(public), url |-> Str(SomeUrl),
               hash |-> Str(<<"0", "a", "F">>)])

RefusedRecords ==
    {RecDisabled, RecFileDisabled, RecNoGuid, RecNoSlug, RecNoVersion,
     RecNoUrl, RecNoHash, RecOddHash}

\* two pages, one record that process_result refuses behind a good record
\* on the first or on the pooled page
RefusedRuns ==
    {<<Unset, 1,
       [p \in 1..MaxPageCount |->
          IF p = 1 THEN Page(Num(2), List(b[1]))
          ELSE IF p = 2 THEN Page(Num(2), List(b[2]))
          ELSE HTTPError]>> :
        b \in {<<<<RecB, r>>, <<RecA1>>>> : r \in RefusedRecords} \cup
              {<<<<RecB>>, <<RecA1, r>>>> : r \in RefusedRecords}}

MainInit ==
    /\ \E run \in PaginationRuns \cup ContentRuns \cup RefusedRuns :
          /\ args_pages = run[1]
          /\ args_parallel = run[2]
          /\ responses = run[3]
    /\ pc = "start"
    /\ first_page = Null
    /\ requested_pages = 0
    /\ results_list = <<>>
    /\ exc = NoException
    /\ stdout = <<>>
    /\ futures = <<>>
    /\ finished = <<>>
    /\ yield_order = <<>>
    /\ consumed = 0
    /\ requests = [p \in 1..MaxPageCount |-> 0]

MainIdle ==
    /\ args_pages = Unset
    /\ args_parallel = 0
    /\ responses = <<>>
    /\ pc = "idle"
    /\ first_page = Null
    /\ requested_pages = 0
    /\ results_list = <<>>
    /\ exc = NoException
    /\ stdout = <<>>
    /\ futures = <<>>
    /\ finished = <<>>
    /\ yield_order = <<>>
    /\ consumed = 0
    /\ requests = <<>>

(***************************************************************************)
(* Specifications.                                                         *)
(***************************************************************************)
Init == SriIdle /\ MapIdle /\ MainInit

Controller ==
    \/ FetchFirstPage
    \/ ProcessFirstPage
    \/ EnterPool
    \/ SubmitPage
    \/ StartAsCompleted
    \/ ConsumeCompleted
    \/ PoolExit
    \/ SortAndDump

Next ==
    \/ FetchFirstPage /\ UNCHANGED <<sri_vars, map_vars>>
    \/ ProcessFirstPage /\ UNCHANGED <<sri_vars, map_vars>>
    \/ EnterPool /\ UNCHANGED <<sri_vars, map_vars>>
    \/ SubmitPage /\ UNCHANGED <<sri_vars, map_vars>>
    \/ StartAsCompleted /\ UNCHANGED <<sri_vars, map_vars>>
    \/ \E p \in 2..MaxPageCount : WorkerStart(p) /\ UNCHANGED <<sri_vars, map_vars>>
    \/ \E p \in 2..MaxPageCount : WorkerRequest(p) /\ UNCHANGED <<sri_vars, map_vars>>
    \/ \E p \in 2..MaxPageCount : WorkerFinish(p) /\ UNCHANGED <<sri_vars, map_vars>>
    \/ ConsumeCompleted /\ UNCHANGED <<sri_vars, map_vars>>
    \/ PoolExit /\ UNCHANGED <<sri_vars, map_vars>>
    \/ SortAndDump /\ UNCHANGED <<sri_vars, map_vars>>

\* one run of main
Spec == Init /\ [][Next]_vars

\* one run of main in which a thread that can take a step is eventually
\* scheduled: the controlling thread keeps running, a free worker takes a
\* queued fetch, and every started fetch returns or raises
FairSpec == Spec /\ WF_vars(Next)

\* one call of convert_to_sri
SriSpecInit == SriInit /\ MapIdle /\ MainIdle
SriNext == SriCall /\ UNCHANGED <<map_vars, main_vars>>
SriSpec == SriSpecInit /\ [][SriNext]_vars

\* one call of process_result
MapSpecInit == SriIdle /\ MapInit /\ MainIdle
MapNext == MapCall /\ UNCHANGED <<sri_vars, main_vars>>
MapSpec == MapSpecInit /\ [][MapNext]_vars

(***************************************************************************)
(* Vocabulary of the properties.                                           *)
(***************************************************************************)
Terminated == pc \in {"done", "failed"}

AllPages == 1..MaxPageCount

\* the raw records of a page whose fetch succeeds
RawOf(p) == IF IsOk(responses[p]) THEN results_of(responses[p][2]) ELSE <<>>

\* the fetch of page p has been made and has raised
FetchFailed(p) ==
    /\ ~IsOk(responses[p])
    /\ IF p = 1 THEN pc \notin {"idle", "start"}
       ELSE p \in DOMAIN futures /\ futures[p] = "finished"

\* the fetch of page p has been made and has returned
FetchReturned(p) ==
    /\ IsOk(responses[p])
    /\ IF p = 1 THEN pc \notin {"idle", "start"}
       ELSE p \in DOMAIN futures /\ futures[p] = "finished"

\* every record of page p is accepted by the mapper
MapsWell(p) == \A i \in 1..Len(RawOf(p)) : IsOk(process_result(RawOf(p)[i]))

\* page_count of the page-1 response, 1 when the response has none
ReportedPageCount ==
    IF "page_count" \in DOMAIN Val(responses[1][2])
    THEN Val(Val(responses[1][2])["page_count"]) ELSE 1

\* N of the pagination rule: min(--pages, page_count), or page_count
CappedPages ==
    IF args_pages = Unset THEN ReportedPageCount
    ELSE IF Val(args_pages) < ReportedPageCount THEN Val(args_pages)
    ELSE ReportedPageCount

\* the pages main asks for: page 1 always, then 2..N
AskedPages == {1} \cup 2..CappedPages

\* the run is over and neither a fetch nor a mapping has failed in it
EndedWithoutFetchOrMapFailure ==
    /\ Terminated
    /\ IsOk(responses[1])
    /\ \A p \in AllPages : requests[p] > 0 => IsOk(responses[p]) /\ MapsWell(p)

\* the mapped records of pages ps, page by page in page order
RECURSIVE MappedInPageOrder(_, _)
MappedInPageOrder(p, last) ==
    IF p > last THEN <<>>
    ELSE [i \in 1..Len(RawOf(p)) |-> process_result(RawOf(p)[i])[2]]
         \o MappedInPageOrder(p + 1, last)

\* what standard output holds after a dump
Emitted == Val(stdout[1])

Count(seq, x) == Cardinality({i \in 1..Len(seq) : seq[i] = x})

(***************************************************************************)
(* C1.  As claimed: a run without fetch or mapping failure calls           *)
(* fetch_page exactly once for each page 1..N and for no other page, with  *)
(* N = min(--pages, page_count), or page_count when --pages is unset.      *)
(* This fails for N <= 0 (--pages 0, a negative --pages, page_count 0),    *)
(* where page 1 is fetched all the same, and for --parallel <= 0 with      *)
(* N > 1, where the pool is never created.                                 *)
(***************************************************************************)
C1_ExactlyPagesOneToN_AsClaimed ==
    EndedWithoutFetchOrMapFailure =>
        \A p \in AllPages :
            requests[p] = IF p \in 1..CappedPages THEN 1 ELSE 0

\* C1, amended: with --parallel >= 1 whenever N > 1, a run without fetch or
\* mapping failure calls fetch_page exactly once for each page of
\* 1..max(1, N), and for no other page.
C1_ExactlyPagesOneToMaxOneN ==
    (EndedWithoutFetchOrMapFailure /\ (CappedPages > 1 => args_parallel >= 1)) =>
        \A p \in AllPages :
            requests[p] = IF p \in AskedPages THEN 1 ELSE 0

\* --pages caps a larger page_count, and the run succeeds
C1_Witness ==
    /\ pc = "done"
    /\ args_pages = Num(2)
    /\ ReportedPageCount = 3
    /\ requests = <<1, 1, 0>>

(***************************************************************************)
(* C2.  Output is all-or-nothing: once the fetch of any page has raised,   *)
(* standard output stays empty and the run cannot end in success; and      *)
(* whatever is written is written after every page asked for has been      *)
(* fetched and mapped successfully.                                        *)
(***************************************************************************)
C2_AllOrNothing ==
    /\ (\E p \in AllPages : FetchFailed(p)) =>
           stdout = <<>> /\ pc # "done" /\ (Terminated => pc = "failed")
    /\ stdout # <<>> =>
           /\ pc = "done"
           /\ \A p \in AskedPages :
                 FetchReturned(p) /\ MapsWell(p) /\ requests[p] = 1
           /\ Len(Emitted) = Len(MappedInPageOrder(1, Cardinality(AskedPages)))

\* a pooled fetch fails after the records of another pooled page were
\* collected
C2_Witness ==
    /\ pc = "failed"
    /\ exc = "HTTPError"
    /\ consumed = 2
    /\ Len(results_list) >= 2
    /\ stdout = <<>>

(***************************************************************************)
(* C3.  Strict policy: a record on a processed page whose status or file   *)
(* status is not "public", or that lacks slug, version, url, hash or guid, *)
(* aborts the run without output; every emitted record comes from a raw    *)
(* record with both statuses "public" and the five fields present.         *)
(***************************************************************************)
HasPath(v, path) ==
    IF Len(path) = 1 THEN IsDict(v) /\ path[1] \in DOMAIN Val(v)
    ELSE IF Len(path) = 2 THEN
        /\ IsDict(v) /\ path[1] \in DOMAIN Val(v)
        /\ IsDict(Val(v)[path[1]]) /\ path[2] \in DOMAIN Val(Val(v)[path[1]])
    ELSE
        /\ IsDict(v) /\ path[1] \in DOMAIN Val(v)
        /\ IsDict(Val(v)[path[1]]) /\ path[2] \in DOMAIN Val(Val(v)[path[1]])
        /\ IsDict(Val(Val(v)[path[1]])[path[2]])
        /\ path[3] \in DOMAIN Val(Val(Val(v)[path[1]])[path[2]])

AtPath(v, path) ==
    IF Len(path) = 1 THEN Val(v)[path[1]]
    ELSE IF Len(path) = 2 THEN Val(Val(v)[path[1]])[path[2]]
    ELSE Val(Val(Val(v)[path[1]])[path[2]])[path[3]]

RequiredPaths ==
    {<<"slug">>, <<"guid">>, <<"current_version", "version">>,
     <<"current_version", "file", "url">>, <<"current_version", "file", "hash">>}

WellFormed(raw) ==
    /\ HasPath(raw, <<"status">>) /\ AtPath(raw, <<"status">>) = Str(public)
    /\ HasPath(raw, <<"current_version", "file", "status">>)
    /\ AtPath(raw, <<"current_version", "file", "status">>) = Str(public)
    /\ \A path \in RequiredPaths : HasPath(raw, path)

\* the controlling thread has run the mapper over page p
Processed(p) ==
    IF p = 1 THEN pc \notin {"idle", "start", "first_fetched"} /\ IsOk(responses[1])
    ELSE /\ IsOk(responses[p])
         /\ \E i \in 1..consumed : yield_order[i] = p

C3_StrictAbort ==
    /\ (\E p \in AllPages :
           /\ requests[p] > 0
           /\ Processed(p)
           /\ \E i \in 1..Len(RawOf(p)) : ~WellFormed(RawOf(p)[i])) =>
           stdout = <<>> /\ pc # "done" /\ exc # NoException
    /\ stdout # <<>> =>
           \A i \in 1..Len(Emitted) :
               \E p \in AskedPages : \E j \in 1..Len(RawOf(p)) :
                   /\ WellFormed(RawOf(p)[j])
                   /\ process_result(RawOf(p)[j]) = Ok(Emitted[i])

\* the pooled page holds a record with a non-public file, behind a good
\* record; the run has failed and the records collected, the good record
\* of that page among them, are not written
C3_Witness ==
    /\ pc = "failed"
    /\ exc = "Exception"
    /\ Len(results_list) = 2
    /\ 2 \in DOMAIN futures
    /\ Processed(2)
    /\ \E i \in 1..Len(RawOf(2)) : RawOf(2)[i] = RecFileDisabled
    /\ stdout = <<>>

(***************************************************************************)
(* C4.  When the emitted records have pairwise distinct pname strings, the *)
(* emitted array is strictly ascending by pname, whatever the order in     *)
(* which the futures of the pooled fetches were yielded.                   *)
(***************************************************************************)
DistinctPnameStrings(l) ==
    /\ \A i \in 1..Len(l) : Tag(pname_of(l[i])) = "str"
    /\ \A i, j \in 1..Len(l) : i # j => pname_of(l[i]) # pname_of(l[j])

C4_SortedAscending ==
    (stdout # <<>> /\ DistinctPnameStrings(Emitted)) =>
        \A i \in 1..(Len(Emitted) - 1) :
            StrLess(Val(pname_of(Emitted[i])), Val(pname_of(Emitted[i + 1])))

\* page 3 was yielded before page 2, the records were collected out of order,
\* and an upper-case pname sorts before the lower-case ones
C4_Witness ==
    /\ pc = "done"
    /\ Len(yield_order) = 2 /\ yield_order[1] > yield_order[2]
    /\ Len(Emitted) >= 3
    /\ DistinctPnameStrings(Emitted)
    /\ Emitted # results_list
    /\ pname_of(Emitted[1]) = Str(<<"B">>)

(***************************************************************************)
(* C5.  As claimed: for fixed page responses, with no assumption on the    *)
(* pname values, every successful run writes the same sequence of records. *)
(* The run in which the pooled pages are yielded in page order is one of   *)
(* them, so the claim says that every successful run writes what that run  *)
(* writes: the records in page order, sorted.  The sort is stable, so two  *)
(* records with one pname on two pooled pages come out in the order in     *)
(* which as_completed yielded their pages.                                 *)
(***************************************************************************)
PageOrderOutput ==
    sorted(MappedInPageOrder(1, Cardinality(AskedPages)))[2]

C5_SameOutputInEveryOrder_AsClaimed ==
    pc = "done" => Emitted = PageOrderOutput

\* no pname is found on two different pooled pages
NoPnameOnTwoPooledPages ==
    \A p, q \in 2..CappedPages :
        p # q =>
            \A i \in 1..Len(RawOf(p)) : \A j \in 1..Len(RawOf(q)) :
                pname_of(process_result(RawOf(p)[i])[2])
                    # pname_of(process_result(RawOf(q)[j])[2])

\* C5, amended: for fixed page responses in which no pname occurs on two
\* different pooled pages (2..N), every successful run writes the same
\* sequence of records, whatever the order in which the pooled fetches finish
\* and are yielded.
C5_SameOutputUnlessPnameOnTwoPooledPages ==
    (pc = "done" /\ NoPnameOnTwoPooledPages) => Emitted = PageOrderOutput

\* page 3 was yielded first, and a pname occurs twice (on page 1 and on a
\* pooled page, or twice on one page)
C5_Witness ==
    /\ pc = "done"
    /\ Len(yield_order) = 2 /\ yield_order[1] > yield_order[2]
    /\ NoPnameOnTwoPooledPages
    /\ Emitted # results_list
    /\ \E i \in 1..(Len(Emitted) - 1) :
          pname_of(Emitted[i]) = pname_of(Emitted[i + 1])

(***************************************************************************)
(* C6.  convert_to_sri is total: for every input string it returns a       *)
(* string and never raises.  (bytes.fromhex raises ValueError on a digest  *)
(* with an odd number of hexadecimal digits.)                              *)
(***************************************************************************)
C6_NeverRaises == sri_pc # "raised" /\ (sri_pc = "returned" => IsOk(sri_ret))

(***************************************************************************)
(* C7.  The optional fields.  Each meta key has one source in the raw      *)
(* record.                                                                 *)
(***************************************************************************)
MetaSources ==
    {<<"homepage", <<"homepage", "url">>>>,
     <<"description", <<"summary">>>>,
     <<"license", <<"current_version", "license", "slug">>>>,
     <<"permissions", <<"current_version", "file", "permissions">>>>,
     <<"hostPermissions", <<"current_version", "file", "host_permissions">>>>,
     <<"optionalPermissions",
       <<"current_version", "file", "optional_permissions">>>>,
     <<"requiresPayment", <<"requires_payment">>>>,
     <<"compatibility", <<"compatibility", "firefox">>>>,
     <<"categories", <<"categories">>>>,
     <<"tags", <<"tags">>>>,
     <<"hasEula", <<"has_eula">>>>,
     <<"hasPrivacyPolicy", <<"has_privacy_policy">>>>,
     <<"promotedCategory", <<"promoted", "category">>>>}

LocaleKeys == {"homepage", "description"}

SourceOf(key) == (CHOOSE ms \in MetaSources : ms[1] = key)[2]

\* a plain-or-per-locale value that yields a field: a non-empty string, or
\* a dict whose "en-US" entry is not null
Resolves(v) ==
    IF IsDict(v) THEN en_US \in DOMAIN Val(v) /\ Val(v)[en_US] # Null
    ELSE Truthy(v)

\* the optional fields that are extracted from a raw record
Extracted(raw) ==
    {ms[1] : ms \in
        {x \in MetaSources :
            /\ HasPath(raw, x[2])
            /\ x[1] \in LocaleKeys => Resolves(AtPath(raw, x[2]))}}

Mapped == Val(map_ret[2])
MetaOfMapped == Val(Mapped["meta"])

\* meta is there exactly when a field was extracted, and holds exactly the
\* extracted fields
MetaIffExtracted ==
    /\ "meta" \in DOMAIN Mapped <=> Extracted(result) # {}
    /\ "meta" \in DOMAIN Mapped => DOMAIN MetaOfMapped = Extracted(result)

\* C7 as claimed: meta is there iff a field was extracted, a field whose
\* source is missing gives no key, and no key of meta is mapped to null.
\* (A source that is present and null is copied: "license": {"slug": null}
\* gives meta.license = null.)
C7_NoNullInMeta_AsClaimed ==
    map_pc = "returned" =>
        /\ MetaIffExtracted
        /\ "meta" \in DOMAIN Mapped =>
               \A k \in DOMAIN MetaOfMapped :
                   /\ HasPath(result, SourceOf(k))
                   /\ MetaOfMapped[k] # Null

\* C7, amended: meta is there iff a field was extracted; a field whose
\* source key is missing from the raw record gives no key; homepage and
\* description are never null; every other key holds the value of its
\* source as it is, so it is null only where the raw record itself holds
\* an explicit null.
C7_MetaHoldsSourcesOnly ==
    map_pc = "returned" =>
        /\ MetaIffExtracted
        /\ "meta" \in DOMAIN Mapped =>
               \A k \in DOMAIN MetaOfMapped :
                   /\ HasPath(result, SourceOf(k))
                   /\ k \in LocaleKeys => MetaOfMapped[k] # Null
                   /\ k \notin LocaleKeys =>
                          MetaOfMapped[k] = AtPath(result, SourceOf(k))

\* a record with a null license slug and an absent promoted object: the
\* null is copied, the absent field gives no key
C7_Witness ==
    /\ map_pc = "returned"
    /\ "meta" \in DOMAIN Mapped
    /\ DOMAIN MetaOfMapped = {"license", "compatibility"}
    /\ MetaOfMapped["license"] = Null
    /\ ~HasPath(result, <<"promoted">>)

(***************************************************************************)
(* C8.  On a successful run the emitted collection holds exactly one       *)
(* mapped record for each raw record of the pages fetched (page 1 and the  *)
(* pooled pages 2..N), as multisets, under every interleaving; and the     *)
(* result collection changes only in steps of the controlling thread.      *)
(***************************************************************************)
ExpectedRecords == MappedInPageOrder(1, Cardinality(AskedPages))

EmittedIsExpectedBag ==
    pc = "done" =>
        /\ Len(Emitted) = Len(ExpectedRecords)
        /\ \A i \in 1..Len(ExpectedRecords) :
              Count(Emitted, ExpectedRecords[i]) =
                  Count(ExpectedRecords, ExpectedRecords[i])

C8_NoRecordLostOrDuplicated ==
    /\ []EmittedIsExpectedBag
    /\ [][results_list' # results_list =>
             pc \in {"first_fetched", "as_completed"} /\ futures' = futures]_vars

\* page 3 was consumed before page 2, and one mapped record occurs twice
C8_Witness ==
    /\ pc = "done"
    /\ Len(yield_order) = 2 /\ yield_order[1] > yield_order[2]
    /\ Len(Emitted) >= 3
    /\ \E i \in 1..Len(Emitted) : Count(Emitted, Emitted[i]) = 2

(***************************************************************************)
(* C9.  If a pooled fetch fails, the run never ends in success, it ends in *)
(* the failed state, and the sibling fetches that were submitted are not   *)
(* cancelled: when the run has failed out of the pool, every submitted     *)
(* fetch has been made and has finished.                                   *)
(***************************************************************************)
PooledFetchFailed == \E p \in DOMAIN futures : FetchFailed(p)

C9_FailsAfterPooledFailure ==
    /\ [](PooledFetchFailed => pc # "done")
    /\ PooledFetchFailed ~> (pc = "failed")
    /\ []((pc = "failed" /\ DOMAIN futures # {}) =>
             \A p \in DOMAIN futures :
                 futures[p] = "finished" /\ requests[p] = 1)

\* the controlling thread has seen the failure while a sibling fetch is
\* still queued
C9_Witness ==
    /\ pc = "pool_exit"
    /\ exc = "HTTPError"
    /\ \E p \in DOMAIN futures : futures[p] = "pending" /\ requests[p] = 0

(***************************************************************************)
(* C10.  Locale resolution of slug, homepage.url and summary.              *)
(***************************************************************************)
WithKey(d, key, v) ==
    Obj([k \in DOMAIN Val(d) \cup {key} |-> IF k = key THEN v ELSE Val(d)[k]])
WithoutKey(d, key) == Obj([k \in DOMAIN Val(d) \ {key} |-> Val(d)[k]])

\* a per-locale dict, not empty, without an "en-US" entry
LacksEnUS(v) == IsDict(v) /\ DOMAIN Val(v) # {} /\ en_US \notin DOMAIN Val(v)
\* a per-locale dict whose "en-US" entry is a string
HasEnUS(v) ==
    IsDict(v) /\ en_US \in DOMAIN Val(v) /\ Tag(Val(v)[en_US]) = "str"

SlugOf(raw) == AtPath(raw, <<"slug">>)
UrlOf(raw) == AtPath(raw, <<"homepage", "url">>)
SummaryOf(raw) == AtPath(raw, <<"summary">>)

WithUrl(raw, v) == WithKey(raw, "homepage", WithKey(Val(raw)["homepage"], "url", v))

\* homepage.url or summary without "en-US": the field is left out and
\* nothing is raised, as if the raw record did not have it
OptionalFallsBackToAbsent ==
    /\ (HasPath(result, <<"homepage", "url">>) /\ LacksEnUS(UrlOf(result))) =>
           map_ret = process_result(WithoutKey(result, "homepage"))
    /\ (HasPath(result, <<"summary">>) /\ LacksEnUS(SummaryOf(result))) =>
           map_ret = process_result(WithoutKey(result, "summary"))

\* slug with an "en-US" entry maps as the plain string does
SlugResolvesAsPlain ==
    (HasPath(result, <<"slug">>) /\ HasEnUS(SlugOf(result))) =>
        map_ret = process_result(WithKey(result, "slug", Val(SlugOf(result))[en_US]))

\* C10 as claimed: without "en-US", pname is absent (as for "slug": null)
\* and nothing is raised; with "en-US", each of the three fields maps as
\* the plain string does.
C10_FallsBackToAbsent_AsClaimed ==
    map_pc # "call" =>
        /\ OptionalFallsBackToAbsent
        /\ SlugResolvesAsPlain
        /\ (HasPath(result, <<"slug">>) /\ LacksEnUS(SlugOf(result))
            /\ IsOk(process_result(WithKey(result, "slug", Null)))) =>
               map_ret = process_result(WithKey(result, "slug", Null))
        /\ (HasPath(result, <<"homepage", "url">>) /\ HasEnUS(UrlOf(result))) =>
               map_ret = process_result(WithUrl(result, Val(UrlOf(result))[en_US]))
        /\ (HasPath(result, <<"summary">>) /\ HasEnUS(SummaryOf(result))) =>
               map_ret = process_result(
                   WithKey(result, "summary", Val(SummaryOf(result))[en_US]))

\* C10, amended: homepage.url and summary without "en-US" are left out of
\* meta and nothing is raised; slug without "en-US" makes the mapper raise
\* (missing required field) once the status checks have passed; slug with
\* an "en-US" entry maps as the plain string does, and so do homepage.url
\* and summary when the entry is a non-empty string (an empty entry gives
\* the key with "", an empty plain string gives no key).
C10_LocaleResolution ==
    map_pc # "call" =>
        /\ OptionalFallsBackToAbsent
        /\ SlugResolvesAsPlain
        /\ (HasPath(result, <<"slug">>) /\ LacksEnUS(SlugOf(result))
            /\ IsOk(CheckStatus(result))) =>
               map_ret = Raise("Exception")
        /\ (HasPath(result, <<"homepage", "url">>) /\ HasEnUS(UrlOf(result))
            /\ Val(UrlOf(result))[en_US] # Str(<<>>)) =>
               map_ret = process_result(WithUrl(result, Val(UrlOf(result))[en_US]))
        /\ (HasPath(result, <<"summary">>) /\ HasEnUS(SummaryOf(result))
            /\ Val(SummaryOf(result))[en_US] # Str(<<>>)) =>
               map_ret = process_result(
                   WithKey(result, "summary", Val(SummaryOf(result))[en_US]))

\* a record that is complete but for a slug given in French only
C10_Witness ==
    /\ map_pc = "raised"
    /\ map_ret = Raise("Exception")
    /\ HasPath(result, <<"slug">>) /\ LacksEnUS(SlugOf(result))
    /\ IsOk(process_result(WithKey(result, "slug", Null)))

====
